---- MODULE Spec2Model ----
(***************************************************************************)
(* Model of src/errors/index.ts: the HeliusError class, the factory        *)
(* createHeliusError and the predicates isHeliusError / isRetryableError.  *)
(*                                                                         *)
(* A JavaScript string is a sequence of words (the words are separated by  *)
(* single blanks); String.prototype.includes is the search for a          *)
(* contiguous run of words.  No word of the alphabet used here overlaps a  *)
(* pattern boundary, so the word-level search agrees with the character-   *)
(* level one on every string of the model.                                 *)
(***************************************************************************)
EXTENDS Integers, Sequences, FiniteSets, TLC

\* A message is the concatenation of at most MaxParts phrases.
MaxParts == 2

(***************************************************************************)
(* JavaScript values that reach the code through the `any` parameter.      *)
(***************************************************************************)
Undefined == [t |-> "undefined", n |-> 0, s |-> <<>>]

Null == [t |-> "null", n |-> 0, s |-> <<>>]

Num(k) == [t |-> "number", n |-> k, s |-> <<>>]

Str(w) == [t |-> "string", n |-> 0, s |-> w]

\* ToBoolean, as applied by `if (...)` and `||`
Truthy(v) ==
  CASE v.t = "undefined" -> FALSE
    [] v.t = "null"      -> FALSE
    [] v.t = "number"    -> v.n # 0
    [] v.t = "string"    -> v.s # <<>>
    [] OTHER             -> TRUE

\* String(v) / ToString(v)
String(v) ==
  CASE v.t = "undefined" -> <<"undefined">>
    [] v.t = "null"      -> <<"null">>
    [] v.t = "number"    -> <<ToString(v.n)>>
    [] v.t = "string"    -> v.s
    [] OTHER             -> <<"[object Object]">>

\* String.prototype.includes(pattern)
includes(str, pattern) ==
  \E i \in 1..(Len(str) - Len(pattern) + 1) :
     SubSeq(str, i, i + Len(pattern) - 1) = pattern

(***************************************************************************)
(* enum HeliusErrorCode                                                    *)
(***************************************************************************)
HeliusErrorCode ==
  { "API_KEY_INVALID", "API_RATE_LIMIT", "API_REQUEST_FAILED",
    "ASSET_NOT_FOUND", "WEBHOOK_NOT_FOUND", "WEBHOOK_ADDRESS_LIMIT",
    "TRANSACTION_FAILED", "TRANSACTION_SIMULATE_FAILED", "INSUFFICIENT_FUNDS",
    "INVALID_INPUT", "NETWORK_ERROR", "UNKNOWN_ERROR" }

(***************************************************************************)
(* class HeliusError                                                       *)
(***************************************************************************)
\* super(message): an undefined message leaves Error.prototype.message ('')
ErrorMessage(message) ==
  IF message.t = "undefined" THEN <<>> ELSE String(message)

\* a constructor that makes every error retryable unless told otherwise
HeliusError_retryDefault(code, message, options) ==
  [ class      |-> "HeliusError",
    name       |-> "HeliusError",
    code       |-> code,
    message    |-> ErrorMessage(message),
    statusCode |-> options.statusCode,
    retryable  |-> (options.retryable # "false"),
    operation  |-> options.operation ]

\* a constructor that forgets the operation label
HeliusError_dropOperation(code, message, options) ==
  [ class      |-> "HeliusError",
    name       |-> "HeliusError",
    code       |-> code,
    message    |-> ErrorMessage(message),
    statusCode |-> options.statusCode,
    retryable  |-> (options.retryable = "true"),
    operation  |-> Undefined ]

\* new HeliusError(code, message, options); options.retryable is one of
\* "true", "false", "undefined" (omitted)
HeliusError(code, message, options) ==
  [ class      |-> "HeliusError",
    name       |-> "HeliusError",
    code       |-> code,
    message    |-> ErrorMessage(message),
    statusCode |-> options.statusCode,
    retryable  |-> (options.retryable = "true"),
    operation  |-> options.operation ]

isRetryable(this) == this.retryable

UserMessageApiKey ==
  << "Invalid", "API", "key.", "Please", "check", "your", "API", "key",
     "in", "the", "Helius", "dashboard." >>

UserMessageRateLimit ==
  << "Rate", "limit", "exceeded.", "Please", "wait", "before", "making",
     "more", "requests." >>

UserMessageAddressLimit ==
  << "Webhook", "address", "limit", "exceeded.", "Maximum", "100,000",
     "addresses", "per", "webhook." >>

UserMessageFunds ==
  << "Insufficient", "funds", "for", "this", "transaction." >>

\* a getUserMessage whose switch lost the INSUFFICIENT_FUNDS case
getUserMessage_noFunds(this) ==
  CASE this.code = "API_KEY_INVALID"       -> UserMessageApiKey
    [] this.code = "API_RATE_LIMIT"        -> UserMessageRateLimit
    [] this.code = "WEBHOOK_ADDRESS_LIMIT" -> UserMessageAddressLimit
    [] OTHER                               -> this.message

getUserMessage(this) ==
  CASE this.code = "API_KEY_INVALID"       -> UserMessageApiKey
    [] this.code = "API_RATE_LIMIT"        -> UserMessageRateLimit
    [] this.code = "WEBHOOK_ADDRESS_LIMIT" -> UserMessageAddressLimit
    [] this.code = "INSUFFICIENT_FUNDS"    -> UserMessageFunds
    [] OTHER                               -> this.message

(***************************************************************************)
(* createHeliusError                                                       *)
(***************************************************************************)
\* the keys of statusCodeMap; a property key is the string form of the index
statusCodeMapKeys == { "401", "429", "404", "500", "502", "503" }

statusCodeMapValue(key) ==
  CASE key = "401" -> "API_KEY_INVALID"
    [] key = "429" -> "API_RATE_LIMIT"
    [] key = "404" -> "ASSET_NOT_FOUND"
    [] OTHER       -> "API_REQUEST_FAILED"

\* ToPropertyKey(status): a number indexes by its decimal form, a one-word
\* string by itself; nothing else of the model names a key of the table
PropertyKey(status) ==
  IF status.t = "number" THEN ToString(status.n)
  ELSE IF status.t = "string" /\ Len(status.s) = 1 THEN status.s[1]
  ELSE "undefined"

\* a table that sends 404 to the webhook kind
statusCodeMap_webhook(status) ==
  LET key == PropertyKey(status)
  IN  IF key = "404" THEN "WEBHOOK_NOT_FOUND"
      ELSE IF key \in statusCodeMapKeys THEN statusCodeMapValue(key)
      ELSE "NETWORK_ERROR"

\* statusCodeMap[status] || HeliusErrorCode.NETWORK_ERROR
statusCodeMap(status) ==
  LET key == PropertyKey(status)
  IN  IF key \in statusCodeMapKeys THEN statusCodeMapValue(key)
      ELSE "NETWORK_ERROR"

\* a retry list that also holds 404
retryableStatus_404(status) ==
  status.t = "number" /\ status.n \in {429, 500, 502, 503, 404}

\* [429, 500, 502, 503].includes(status): strict (SameValueZero) comparison
retryableStatus(status) ==
  status.t = "number" /\ status.n \in {429, 500, 502, 503}

\* error.response.status
responseStatus(response) ==
  IF response.t = "object" THEN response.status ELSE Undefined

\* error.response.data?.error
responseDataError(response) ==
  IF response.t = "object" /\ response.data.t = "object"
  THEN response.data.error ELSE Undefined

\* outcome of a call: a thrown TypeError or a returned instance
NoInstance == [class |-> "none"]

Throw == [threw |-> TRUE, value |-> NoInstance]

Return(v) == [threw |-> FALSE, value |-> v]

\* the business-logic half of the factory (error has no truthy response)
businessError(error, operation) ==
  LET errorMessage == IF Truthy(error.message) THEN error.message
                      ELSE Str(String(error))
      opts == [statusCode |-> Undefined, retryable |-> "undefined",
               operation |-> operation]
  IN  IF errorMessage.t # "string" THEN Throw \* errorMessage.includes is not a function
      ELSE IF includes(errorMessage.s, <<"100,000", "addresses">>)
              \/ includes(errorMessage.s, <<"address", "limit">>)
      THEN Return(HeliusError("WEBHOOK_ADDRESS_LIMIT", errorMessage, opts))
      ELSE IF includes(errorMessage.s, <<"insufficient", "funds">>)
      THEN Return(HeliusError("INSUFFICIENT_FUNDS", errorMessage, opts))
      ELSE IF includes(errorMessage.s, <<"simulation", "failed">>)
      THEN Return(HeliusError("TRANSACTION_SIMULATE_FAILED", errorMessage, opts))
      ELSE Return(HeliusError("UNKNOWN_ERROR", errorMessage, opts))

\* the Axios half of the factory (error.response is truthy)
axiosError(error, operation) ==
  LET status  == responseStatus(error.response)
      dataErr == responseDataError(error.response)
      message == IF Truthy(dataErr) THEN dataErr ELSE error.message
  IN  Return(HeliusError(statusCodeMap(status), message,
                         [statusCode |-> status,
                          retryable  |-> IF retryableStatus(status)
                                         THEN "true" ELSE "false",
                          operation  |-> operation]))

\* a factory that matches the message text before it looks at the response
createHeliusError_textFirst(error, operation) ==
  IF error.t \in {"null", "undefined"} THEN Throw
  ELSE LET b == businessError(error, operation)
       IN  IF Truthy(error.response)
              /\ (b.threw \/ b.value.code = "UNKNOWN_ERROR")
           THEN axiosError(error, operation)
           ELSE b

\* createHeliusError(error, operation)
createHeliusError(error, operation) ==
  IF error.t \in {"null", "undefined"}
  THEN Throw                       \* reading .response of null / undefined
  ELSE IF Truthy(error.response)
  THEN axiosError(error, operation)
  ELSE businessError(error, operation)

(***************************************************************************)
(* Utility functions                                                       *)
(***************************************************************************)
\* a duck-typed test
isHeliusError_duck(x) == "retryable" \in DOMAIN x

\* error instanceof HeliusError
isHeliusError(x) == x.class = "HeliusError"

isRetryableError(x) == isHeliusError(x) /\ isRetryable(x)

(***************************************************************************)
(* Inputs                                                                  *)
(***************************************************************************)
Phrases ==
  { <<"100,000", "addresses">>, <<"address", "limit">>,
    <<"insufficient", "funds">>, <<"simulation", "failed">>,
    <<"boom">>, <<"address">>, <<"limit">>, <<"funds">>, <<"insufficient">> }

RECURSIVE Messages(_)
Messages(k) ==
  IF k = 0 THEN { <<>> }
  ELSE Messages(k - 1) \cup { m \o p : m \in Messages(k - 1), p \in Phrases }

AllMessages == Messages(MaxParts)

\* texts carried by failures that also carry a response
TransportTexts ==
  { <<>>, <<"boom">>, <<"100,000", "addresses">>, <<"address", "limit">>,
    <<"insufficient", "funds">>, <<"simulation", "failed">> }

NoData == [t |-> "undefined", error |-> Undefined]

Datas ==
  { NoData, [t |-> "null", error |-> Undefined] }
    \cup { [t |-> "object", error |-> e] :
             e \in {Undefined} \cup { Str(w) : w \in TransportTexts } }

Statuses ==
  { Undefined, Str(<<"429">>) }
    \cup { Num(k) : k \in {0, 400, 401, 403, 404, 429, 500, 502, 503} }

NoResponse == [t |-> "undefined", status |-> Undefined, data |-> NoData]

\* response: undefined, null, a truthy non-object, or an object
Responses ==
  { NoResponse,
    [t |-> "null", status |-> Undefined, data |-> NoData],
    [t |-> "true", status |-> Undefined, data |-> NoData] }
    \cup { [t |-> "object", status |-> st, data |-> d] :
             st \in Statuses, d \in Datas }

\* a primitive: reading .response or .message of it yields undefined
Prim(v) ==
  [t |-> v.t, n |-> v.n, s |-> v.s, response |-> NoResponse,
   message |-> Undefined]

Obj(response, message) ==
  [t |-> "object", n |-> 0, s |-> <<>>, response |-> response,
   message |-> message]

Failures ==
  { Prim(v) : v \in {Undefined, Null, Num(0), Num(5)}
                      \cup { Str(m) : m \in AllMessages } }
    \cup { Obj(r, m) : r \in { q \in Responses : ~Truthy(q) },
                       m \in {Undefined, Num(42)}
                               \cup { Str(w) : w \in AllMessages } }
    \cup { Obj(r, m) : r \in { q \in Responses : Truthy(q) },
                       m \in {Undefined, Num(42)}
                               \cup { Str(w) : w \in TransportTexts } }

Operations == { Undefined, Str(<<"getAsset">>) }

Options ==
  [ statusCode : {Undefined, Num(400), Num(429)},
    retryable  : {"undefined", "true", "false"},
    operation  : Operations ]

\* a plain object with the fields of o and an isRetryable method giving true
Lookalike(o) == [o EXCEPT !.class = "Object", !.retryable = TRUE]

PlainValues ==
  { [class |-> "null"], [class |-> "undefined"],
    [class |-> "string", s |-> <<"boom">>],
    [class |-> "number", n |-> 5],
    [class |-> "Object"],
    Lookalike(HeliusError("API_RATE_LIMIT", Str(<<"boom">>),
                          [statusCode |-> Num(429), retryable |-> "true",
                           operation |-> Undefined])) }

Values(o) ==
  PlainValues \cup (IF o.class = "HeliusError" THEN {o, Lookalike(o)} ELSE {})

(***************************************************************************)
(* State: the factory call made, its outcome, and the last method or       *)
(* predicate call made afterwards.                                         *)
(***************************************************************************)
VARIABLES call, threw, self, last

vars == <<call, threw, self, last>>

NoCall == [fn |-> "none"]

Init ==
  /\ call = NoCall
  /\ threw = FALSE
  /\ self = NoInstance
  /\ last = NoCall

\* createHeliusError(error, operation)
Classify ==
  /\ call.fn = "none"
  /\ \E error \in Failures, operation \in Operations :
       LET r == createHeliusError(error, operation)
       IN  /\ call' = [fn |-> "createHeliusError", error |-> error,
                       operation |-> operation]
           /\ threw' = r.threw
           /\ self' = r.value
  /\ UNCHANGED last

\* new HeliusError(code, message, options)
Construct ==
  /\ call.fn = "none"
  /\ \E code \in HeliusErrorCode, message \in TransportTexts,
        options \in Options :
       /\ call' = [fn |-> "new", code |-> code, message |-> message,
                   options |-> options]
       /\ self' = HeliusError(code, Str(message), options)
  /\ threw' = FALSE
  /\ UNCHANGED last

\* self.isRetryable()
IsRetryable ==
  /\ self.class = "HeliusError"
  /\ last' = [fn |-> "isRetryable", x |-> self, bool |-> isRetryable(self),
              str |-> <<>>]
  /\ UNCHANGED <<call, threw, self>>

\* self.getUserMessage()
GetUserMessage ==
  /\ self.class = "HeliusError"
  /\ last' = [fn |-> "getUserMessage", x |-> self, bool |-> FALSE,
              str |-> getUserMessage(self)]
  /\ UNCHANGED <<call, threw, self>>

\* isHeliusError(x)
IsHeliusError ==
  /\ call.fn # "none"
  /\ \E x \in Values(self) :
       last' = [fn |-> "isHeliusError", x |-> x, bool |-> isHeliusError(x),
                str |-> <<>>]
  /\ UNCHANGED <<call, threw, self>>

\* isRetryableError(x)
IsRetryableError ==
  /\ call.fn # "none"
  /\ \E x \in Values(self) :
       last' = [fn |-> "isRetryableError", x |-> x,
                bool |-> isRetryableError(x), str |-> <<>>]
  /\ UNCHANGED <<call, threw, self>>

Next ==
  \/ Classify
  \/ Construct
  \/ IsRetryable
  \/ GetUserMessage
  \/ IsHeliusError
  \/ IsRetryableError

Spec == Init /\ [][Next]_vars

(***************************************************************************)
(* Properties                                                              *)
(***************************************************************************)

\* C1: createHeliusError is total: for every input value and every operation
\* label the call does not throw and returns a HeliusError whose code is one
\* of the enumeration.
C1_NeverThrows ==
  call.fn = "createHeliusError" =>
     /\ ~threw
     /\ self.class = "HeliusError"
     /\ self.code \in HeliusErrorCode

\* C2: for a failure whose response carries a numeric status s, the code is
\* API_KEY_INVALID for 401, API_RATE_LIMIT for 429, ASSET_NOT_FOUND for 404,
\* API_REQUEST_FAILED for 500, 502, 503 and NETWORK_ERROR for any other s;
\* statusCode is s, operation is the label passed in, and retryable is true
\* exactly when s is 429, 500, 502 or 503.
C2_StatusTable ==
  ( /\ call.fn = "createHeliusError"
    /\ call.error.t = "object"
    /\ call.error.response.t = "object"
    /\ call.error.response.status.t = "number" ) =>
     LET s == call.error.response.status.n
     IN  /\ ~threw
         /\ self.code = ( CASE s = 401 -> "API_KEY_INVALID"
                            [] s = 429 -> "API_RATE_LIMIT"
                            [] s = 404 -> "ASSET_NOT_FOUND"
                            [] s \in {500, 502, 503} -> "API_REQUEST_FAILED"
                            [] OTHER -> "NETWORK_ERROR" )
         /\ self.statusCode = Num(s)
         /\ self.operation = call.operation
         /\ self.retryable = (s \in {429, 500, 502, 503})

\* a 404 with a label: ASSET_NOT_FOUND, not retryable, label kept
C2_Witness ==
  /\ call.fn = "createHeliusError"
  /\ call.error.t = "object"
  /\ call.error.response.t = "object"
  /\ call.error.response.status = Num(404)
  /\ call.operation = Str(<<"getAsset">>)
  /\ ~threw
  /\ self.code = "ASSET_NOT_FOUND"
  /\ ~self.retryable

\* C3: a failure that carries a response with a status is classified by the
\* status alone, whatever its message or the response body's error text
\* contain; it never gets WEBHOOK_ADDRESS_LIMIT, INSUFFICIENT_FUNDS or
\* TRANSACTION_SIMULATE_FAILED.
C3_ResponsePriority ==
  ( /\ call.fn = "createHeliusError"
    /\ call.error.t = "object"
    /\ call.error.response.t = "object"
    /\ call.error.response.status.t # "undefined" ) =>
     /\ ~threw
     /\ self.code \notin { "WEBHOOK_ADDRESS_LIMIT", "INSUFFICIENT_FUNDS",
                           "TRANSACTION_SIMULATE_FAILED", "UNKNOWN_ERROR" }
     /\ call.error.response.status.t = "number" =>
          LET s == call.error.response.status.n
          IN  self.code = ( CASE s = 401 -> "API_KEY_INVALID"
                              [] s = 429 -> "API_RATE_LIMIT"
                              [] s = 404 -> "ASSET_NOT_FOUND"
                              [] s \in {500, 502, 503} -> "API_REQUEST_FAILED"
                              [] OTHER -> "NETWORK_ERROR" )

\* a 401 whose message and body text both match business patterns
C3_Witness ==
  /\ call.fn = "createHeliusError"
  /\ call.error.t = "object"
  /\ call.error.response.t = "object"
  /\ call.error.response.status = Num(401)
  /\ call.error.message = Str(<<"insufficient", "funds">>)
  /\ call.error.response.data.t = "object"
  /\ call.error.response.data.error = Str(<<"address", "limit">>)
  /\ self.code = "API_KEY_INVALID"

\* C4: for a failure with no response descriptor the plain message is the
\* failure's message field, or its string conversion if it has none; the code
\* is that of the first matching rule (address patterns, then insufficient
\* funds, then simulation failed, else UNKNOWN_ERROR) and the result's message
\* is the plain message.
C4_TextRules ==
  ( /\ call.fn = "createHeliusError"
    /\ call.error.response.t \in {"undefined", "null"}
    /\ call.error.message.t \in {"undefined", "string"} ) =>
     LET plain == IF call.error.message.t = "string"
                  THEN call.error.message.s
                  ELSE String(call.error)
         has(p) == \E i \in 1..Len(plain) :
                      i + 1 <= Len(plain) /\ <<plain[i], plain[i + 1]>> = p
     IN  /\ ~threw
         /\ self.message = plain
         /\ self.code =
              ( IF has(<<"100,000", "addresses">>) \/ has(<<"address", "limit">>)
                THEN "WEBHOOK_ADDRESS_LIMIT"
                ELSE IF has(<<"insufficient", "funds">>)
                THEN "INSUFFICIENT_FUNDS"
                ELSE IF has(<<"simulation", "failed">>)
                THEN "TRANSACTION_SIMULATE_FAILED"
                ELSE "UNKNOWN_ERROR" )

\* C5: a result of createHeliusError is retryable only if its statusCode is
\* 429, 500, 502 or 503; a result for a failure without a response has no
\* statusCode and is not retryable; a directly constructed error is retryable
\* exactly when constructed with retryable: true.
C5_Retryable ==
  /\ ( call.fn = "createHeliusError" /\ ~threw /\ self.retryable ) =>
        self.statusCode \in { Num(429), Num(500), Num(502), Num(503) }
  /\ ( call.fn = "createHeliusError" /\ ~threw
       /\ call.error.response.t \in {"undefined", "null"} ) =>
        ( self.statusCode = Undefined /\ ~self.retryable )
  /\ call.fn = "new" =>
        ( self.retryable = (call.options.retryable = "true") )

\* a text-matched failure: no statusCode, not retryable
C5_Witness ==
  /\ call.fn = "createHeliusError"
  /\ call.error.response.t = "undefined"
  /\ ~threw
  /\ self.code = "INSUFFICIENT_FUNDS"
  /\ self.statusCode = Undefined
  /\ ~self.retryable

\* C6: getUserMessage returns a fixed string for API_KEY_INVALID,
\* API_RATE_LIMIT, WEBHOOK_ADDRESS_LIMIT and INSUFFICIENT_FUNDS and the raw
\* message for the other eight codes; the call changes no field of the error
\* and a repeated call returns the same string.
C6_UserMessage ==
  [][ last'.fn = "getUserMessage" =>
        /\ self' = self
        /\ last'.x = self
        /\ last'.str =
             ( CASE self.code = "API_KEY_INVALID" ->
                      << "Invalid", "API", "key.", "Please", "check", "your",
                         "API", "key", "in", "the", "Helius", "dashboard." >>
                 [] self.code = "API_RATE_LIMIT" ->
                      << "Rate", "limit", "exceeded.", "Please", "wait",
                         "before", "making", "more", "requests." >>
                 [] self.code = "WEBHOOK_ADDRESS_LIMIT" ->
                      << "Webhook", "address", "limit", "exceeded.", "Maximum",
                         "100,000", "addresses", "per", "webhook." >>
                 [] self.code = "INSUFFICIENT_FUNDS" ->
                      << "Insufficient", "funds", "for", "this",
                         "transaction." >>
                 [] OTHER -> self.message )
        /\ ( last.fn = "getUserMessage" => last'.str = last.str )
    ]_vars

\* the curated text replaced the raw message of an INSUFFICIENT_FUNDS error
C6_Witness ==
  /\ last.fn = "getUserMessage"
  /\ self.code = "INSUFFICIENT_FUNDS"
  /\ self.message = <<"insufficient", "funds", "boom">>
  /\ last.str # self.message

\* C7: isHeliusError(x) is true only for the instance the factory or the
\* constructor produced and false for strings, numbers, null and plain
\* objects, a plain object with the same fields and a true isRetryable
\* included; isRetryableError(x) is true iff x is such an instance and
\* x.isRetryable() is true.
C7_Predicates ==
  /\ last.fn = "isHeliusError" =>
        /\ last.bool => ( ~threw /\ self.class = "HeliusError" /\ last.x = self )
        /\ last.x.class \in {"string", "number", "null", "undefined", "Object"}
              => ~last.bool
  /\ last.fn = "isRetryableError" =>
        ( last.bool <=> ( /\ ~threw
                          /\ self.class = "HeliusError"
                          /\ last.x = self
                          /\ self.retryable ) )

\* the look-alike of a retryable instance is not retryable
C7_Witness ==
  /\ last.fn = "isRetryableError"
  /\ self.class = "HeliusError"
  /\ self.retryable
  /\ last.x = Lookalike(self)
  /\ ~last.bool

\* C8: a constructed HeliusError has the code, message, statusCode, retryable
\* and operation it was constructed with, isRetryable() returns that
\* retryable, and no later call changes the instance.
C8_RoundTrip ==
  /\ [] ( ( call.fn = "new" /\ call.options.retryable # "undefined" ) =>
            /\ self.code = call.code
            /\ self.message = call.message
            /\ self.statusCode = call.options.statusCode
            /\ self.retryable = (call.options.retryable = "true")
            /\ self.operation = call.options.operation
            /\ ( last.fn = "isRetryable" =>
                    last.bool = (call.options.retryable = "true") ) )
  /\ [][ call.fn = "new" => self' = self ]_vars

\* retryable: true with a non-retryable status survives isRetryable()
C8_Witness ==
  /\ call.fn = "new"
  /\ call.options = [ statusCode |-> Num(400), retryable |-> "true",
                      operation |-> Str(<<"getAsset">>) ]
  /\ last.fn = "isRetryable"
  /\ last.bool
  /\ self.operation = Str(<<"getAsset">>)

\* C9: a result whose code comes from the status table (NETWORK_ERROR
\* included) has a numeric statusCode equal to the response's status and its
\* message is the response body's error field when present, otherwise the
\* failure's own message string; a failure whose response has no numeric
\* status is not classified as a transport failure.
C9_NumericStatusOnly ==
  ( call.fn = "createHeliusError" /\ ~threw ) =>
     LET transport == self.code \in { "API_KEY_INVALID", "API_RATE_LIMIT",
                                      "ASSET_NOT_FOUND", "API_REQUEST_FAILED",
                                      "NETWORK_ERROR" }
         response == call.error.response
     IN  /\ transport =>
              /\ response.t = "object"
              /\ response.status.t = "number"
              /\ self.statusCode = response.status
              /\ self.message =
                   ( IF response.data.t = "object"
                        /\ response.data.error.t = "string"
                     THEN response.data.error.s
                     ELSE IF call.error.message.t = "undefined" THEN <<>>
                     ELSE String(call.error.message) )
         /\ ( response.t # "object" \/ response.status.t # "number" )
              => ~transport

====
